---- MODULE Spec2Model ----
(***************************************************************************)
(* brazier: a mediator that dispatches typed requests to the one handler   *)
(* registered for the request's type (src/src/lib.rs, src/src/error.rs).   *)
(*                                                                         *)
(* The registry (TypeMap) is a HashMap<TypeId, Box<dyn Any>>; it is        *)
(* modelled as a set of entries [key, ty, h]: key is TypeId::of::<TKey>(), *)
(* ty is the concrete type of the boxed value (what downcast_mut tests)    *)
(* and h is the handler object the box owns.                               *)
(*                                                                         *)
(* send is an async fn: it is modelled from the first poll of its future   *)
(* (the registry lookup and, when a handler is found, the call of its      *)
(* handle) to the completion of the handler's future.  Callers are the     *)
(* places of the program that may try to call into the same mediator.      *)
(***************************************************************************)
EXTENDS Integers, FiniteSets, Sequences, TLC

\* ---- bounds of the model -------------------------------------------------
MaxHandlers == 3      \* handler instances created during a run
MaxCount    == 2      \* invocations of one stateful handler instance

\* ---- the types a program using the library declares --------------------
Callers   == {"a", "b"}
ReqTypes  == {"TestRequest", "Query"}
RespTypes == {"i64", "String"}

\* impl Request<TResponse> for TRequest: TestRequest as in the tests; Request
\* is generic in TResponse, so a type may implement it for several response
\* types, as Query does.
RequestImpls ==
    { <<"TestRequest", "i64">>, <<"Query", "i64">>, <<"Query", "String">> }

\* the values a request carries
Payloads == {0, 1}

HandlerNotRegisteredError == "HandlerNotRegisteredError"

\* Box<dyn Error> values a handler may return: the mediator's own error type
\* is public, so a handler can return it too.
Errors == { HandlerNotRegisteredError, "HandlerError" }

\* the handler implementations of the program: a kind and, for a kind that
\* fails, the error it returns
Impls == { <<"const", "none">>, <<"flaky", HandlerNotRegisteredError>>,
           <<"flaky", "HandlerError">> }

ConstVal == 42

\* ---- Result<T> = core::result::Result<T, Box<dyn Error>> ----------------
Ok(ty, val) == [ok |-> TRUE, ty |-> ty, val |-> val, err |-> "none"]

Err(e) == [ok |-> FALSE, ty |-> "none", val |-> 0, err |-> e]

NoResult == [ok |-> FALSE, ty |-> "none", val |-> 0, err |-> "none"]

\* ---- handlers -------------------------------------------------------------
\* A handler instance: an implementation of RequestHandler<req, resp> with
\* internal state n.  id tells instances apart.
NoHandler == [id |-> 0, req |-> "none", resp |-> "none", kind |-> "none",
              err |-> "none", n |-> 0]

NewHandler(id, req, resp, kind, err) ==
    [id |-> id, req |-> req, resp |-> resp, kind |-> kind, err |-> err, n |-> 0]

\* handle(&mut self, request) -> Result<TResponse>: the result and the
\* handler as the call leaves it.
\*   const: Ok(42), no state (TestRequestHandler, PingHandler)
\*   flaky: counts its invocations in n; fails with err on its 1st, 3rd, ...
\*          invocation and returns Ok(n + request) on the others
handle(h, v) ==
    CASE h.kind = "const" ->
           [res |-> Ok(h.resp, ConstVal), h |-> h]
      [] h.kind = "flaky" ->
           [res |-> IF h.n % 2 = 0 THEN Err(h.err) ELSE Ok(h.resp, h.n + v),
            h   |-> [h EXCEPT !.n = h.n + 1]]
      [] OTHER ->
           [res |-> NoResult, h |-> h]

\* ---- TypeMap --------------------------------------------------------------
\* TypeId::of::<Box<dyn RequestHandler<TRequest, TResponse>>>()
BoxedHandlerType(req, resp) == <<req, resp>>

TypeMap_new == {}

Keys(m) == { e.key : e \in m }

\* mutant: entry(key).or_insert(value) instead of insert
TypeMap_set_keep(m, key, ty, h) ==
    IF key \in Keys(m) THEN m ELSE m \cup { [key |-> key, ty |-> ty, h |-> h] }

\* mutant: the map is cleared before the insert
TypeMap_set_clear(m, key, ty, h) ==
    { [key |-> key, ty |-> ty, h |-> h] }

\* HashMap::insert(TypeId::of::<TKey>(), Box::new(value))
TypeMap_set(m, key, ty, h) ==
    { e \in m : e.key # key } \cup { [key |-> key, ty |-> ty, h |-> h] }

\* mutant: unchecked downcast, the stored type is not compared
TypeMap_get_mut_unchecked(m, key, ty) ==
    { e \in m : e.key = key }

\* mutant: the first value of the map, whatever its key and type
TypeMap_get_mut_any(m, key, ty) ==
    IF m = {} THEN {} ELSE { CHOOSE e \in m : TRUE }

\* HashMap::get_mut(&TypeId::of::<TKey>()).and_then(|v| v.downcast_mut::<TValue>())
\* An Option is the empty set or a one-element set.
TypeMap_get_mut(m, key, ty) ==
    { e \in m : e.key = key /\ e.ty = ty }

\* mutant: the handler works on a copy, the stored one is untouched
WriteThrough_copy(m, key, h) == m

\* mutant: the entry is taken out of the map for the call
WriteThrough_remove(m, key, h) ==
    { e \in m : e.key # key }

\* the &mut TValue that get_mut returned: what handle does to self it does
\* to the value stored in the map
WriteThrough(m, key, h) ==
    { IF e.key = key /\ e.h.id = h.id THEN [e EXCEPT !.h = h] ELSE e : e \in m }

\* ---- Mediator -------------------------------------------------------------
\* mutant: a failure of the handler is replaced by the mediator's own error
Await_wrapped(res) ==
    IF res.ok THEN res ELSE Err(HandlerNotRegisteredError)

\* Some(h) => h.handle(request).await
Await(res) == res

\* mutant: a missing handler yields a default success
NoneArm_default == Ok("i64", 0)

\* None => Err(Box::new(MediatorError::HandlerNotRegisteredError))
NoneArm == Err(HandlerNotRegisteredError)

\* mutant: &self instead of &mut self, calls may overlap
CanBorrowMut_shared(b) == TRUE

\* &mut self: a call can begin only while no other borrow of the mediator
\* is alive
CanBorrowMut(b) == b = {}

VARIABLES
    map,        \* Mediator.0.0: the entries of the registry
    borrow,     \* callers holding the mediator's &mut borrow
    pc,         \* per caller: "idle", or "handle" while its send awaits
    cur,        \* per caller: the send in progress
    last,       \* the last call that returned, with what it returned
    nextId,     \* id of the next handler instance
    ever,       \* request types a handler was ever registered for
    latest      \* per request type: id of the handler registered last, or 0

vars == <<map, borrow, pc, cur, last, nextId, ever, latest>>

NoCall == [req |-> "none", resp |-> "none", v |-> 0, h |-> NoHandler,
           suspended |-> FALSE]

NoLast == [op |-> "none", req |-> "none", resp |-> "none", v |-> 0,
           h |-> NoHandler, res |-> NoResult, inv |-> 0,
           fresh |-> FALSE, old |-> "none"]

\* Mediator::new()
Init ==
    /\ map = TypeMap_new
    /\ borrow = {}
    /\ pc = [c \in Callers |-> "idle"]
    /\ cur = [c \in Callers |-> NoCall]
    /\ last = NoLast
    /\ nextId = 1
    /\ ever = {}
    /\ latest = [r \in ReqTypes |-> 0]

\* the previous call that returned registered a handler for this pair
Fresh(req, resp) ==
    last.op = "register" /\ last.req = req /\ last.resp = resp

\* Mediator::register_handler::<req, _, resp>(handler)
register_handler(req, resp, kind, err) ==
    /\ CanBorrowMut(borrow)
    /\ <<req, resp>> \in RequestImpls
    /\ nextId <= MaxHandlers
    /\ LET h == NewHandler(nextId, req, resp, kind, err)
           old == { e \in map : e.key = req }
       IN /\ map' = TypeMap_set(map, req, BoxedHandlerType(req, resp), h)
          /\ latest' = [latest EXCEPT ![req] = h.id]
          /\ last' = [NoLast EXCEPT !.op = "register", !.req = req, !.resp = resp,
                                    !.h = h,
                                    !.old = IF old = {} THEN "none"
                                            ELSE (CHOOSE e \in old : TRUE).h.resp]
    /\ nextId' = nextId + 1
    /\ ever' = ever \cup {req}
    /\ UNCHANGED <<borrow, pc, cur>>

\* Mediator::send::<req, resp>(request), the None arm: it returns at once
send_none(c, req, resp, v) ==
    /\ pc[c] = "idle"
    /\ CanBorrowMut(borrow)
    /\ <<req, resp>> \in RequestImpls
    /\ TypeMap_get_mut(map, req, BoxedHandlerType(req, resp)) = {}
    /\ last' = [NoLast EXCEPT !.op = "send", !.req = req, !.resp = resp, !.v = v,
                              !.res = NoneArm, !.fresh = Fresh(req, resp)]
    /\ UNCHANGED <<map, borrow, pc, cur, nextId, ever, latest>>

\* Mediator::send::<req, resp>(request), the Some(h) arm up to the await:
\* h.handle(request) is called and the caller is suspended on it
send_some(c, req, resp, v) ==
    /\ pc[c] = "idle"
    /\ CanBorrowMut(borrow)
    /\ <<req, resp>> \in RequestImpls
    /\ LET opt == TypeMap_get_mut(map, req, BoxedHandlerType(req, resp))
       IN /\ opt # {}
          /\ LET h == (CHOOSE e \in opt : TRUE).h
             IN /\ h.n < MaxCount
                /\ cur' = [cur EXCEPT ![c] = [req |-> req, resp |-> resp, v |-> v,
                                              h |-> h, suspended |-> FALSE]]
    /\ pc' = [pc EXCEPT ![c] = "handle"]
    /\ borrow' = borrow \cup {c}
    /\ UNCHANGED <<map, last, nextId, ever, latest>>

\* the handler's future is not ready: the send is suspended in handle
handle_pending(c) ==
    /\ pc[c] = "handle"
    /\ ~cur[c].suspended
    /\ cur' = [cur EXCEPT ![c].suspended = TRUE]
    /\ UNCHANGED <<map, borrow, pc, last, nextId, ever, latest>>

\* the handler's future completes and send returns its result
handle_ready(c) ==
    /\ pc[c] = "handle"
    /\ LET out == handle(cur[c].h, cur[c].v)
       IN /\ map' = WriteThrough(map, cur[c].req, out.h)
          /\ last' = [NoLast EXCEPT !.op = "send", !.req = cur[c].req,
                                    !.resp = cur[c].resp, !.v = cur[c].v,
                                    !.h = cur[c].h, !.res = Await(out.res),
                                    !.inv = 1,
                                    !.fresh = Fresh(cur[c].req, cur[c].resp)]
    /\ pc' = [pc EXCEPT ![c] = "idle"]
    /\ cur' = [cur EXCEPT ![c] = NoCall]
    /\ borrow' = borrow \ {c}
    /\ UNCHANGED <<nextId, ever, latest>>

Next ==
    \/ \E req \in ReqTypes, resp \in RespTypes, i \in Impls :
            register_handler(req, resp, i[1], i[2])
    \/ \E c \in Callers, req \in ReqTypes, resp \in RespTypes, v \in Payloads :
            send_none(c, req, resp, v)
    \/ \E c \in Callers, req \in ReqTypes, resp \in RespTypes, v \in Payloads :
            send_some(c, req, resp, v)
    \/ \E c \in Callers : handle_pending(c)
    \/ \E c \in Callers : handle_ready(c)

Spec == Init /\ [][Next]_vars

\* ---- steps, as the properties below name them ----------------------------
Begins(c) == pc[c] = "idle" /\ pc'[c] = "handle"

Returns(c) == pc[c] = "handle" /\ pc'[c] = "idle"

Registers == nextId' # nextId

InHandle == { c \in Callers : pc[c] = "handle" }

\* ---- properties ------------------------------------------------------------

C2_NeverRegistered ==
    /\ (last.op = "send" /\ last.req \notin ever)
          => (last.res = Err(HandlerNotRegisteredError) /\ last.inv = 0)
    /\ \A c \in Callers : pc[c] = "handle" => cur[c].req \in ever

C2_Witness ==
    /\ last.op = "send"
    /\ last.req \notin ever
    /\ ever # {}

\* C3: the registry holds one entry per request type, the handler registered
\* last; a send of that type invokes no other handler, so a handler that was
\* replaced is never invoked again, and a send of the pair the last handler
\* was registered for is handled by it.
C3_LastWriteWins ==
    /\ \A e1, e2 \in map : e1.key = e2.key => e1 = e2
    /\ \A r \in ReqTypes : latest[r] # 0 => \E e \in map : e.key = r /\ e.h.id = latest[r]
    /\ \A c \in Callers : pc[c] = "handle" => cur[c].h.id = latest[cur[c].req]
    /\ (last.op = "send" /\ last.inv = 1) => last.h.id = latest[last.req]
    /\ (last.op = "send" /\ last.inv = 0)
          => \A e \in map : e.key = last.req => e.h.resp # last.resp

C3_Witness ==
    /\ nextId = 3
    /\ Cardinality(map) = 1
    /\ last.op = "send"
    /\ last.inv = 1
    /\ last.h.id = 2

\* C4: a registration changes the entry of its own request type only, a send
\* is resolved to the entry stored under its own request type and its
\* handler's work changes that entry only.
C4_NoCrossTalk ==
    [][ /\ Registers =>
             \A r \in ReqTypes \ {last'.req} :
                 { e \in map' : e.key = r } = { e \in map : e.key = r }
        /\ \A c \in Callers :
             /\ Begins(c) =>
                  /\ cur'[c].h.req = cur'[c].req
                  /\ \E e \in map : e.key = cur'[c].req /\ e.h = cur'[c].h
             /\ Returns(c) =>
                  \A r \in ReqTypes \ {cur[c].req} :
                      { e \in map' : e.key = r } = { e \in map : e.key = r } ]_vars

C4_Witness ==
    /\ last.op = "register"
    /\ last.old # "none"
    /\ Cardinality(map) = 2

\* C5: a failure returned by the handler is what send returns, unchanged; the
\* mediator's own failure is HandlerNotRegistered only, so any other failure
\* is the handler's.
C5_FailurePassedThrough ==
    /\ (last.op = "send" /\ last.inv = 1 /\ ~handle(last.h, last.v).res.ok)
          => last.res = handle(last.h, last.v).res
    /\ (last.op = "send" /\ last.inv = 0)
          => last.res = Err(HandlerNotRegisteredError)
    /\ (last.op = "send" /\ ~last.res.ok /\ last.res.err # HandlerNotRegisteredError)
          => (last.inv = 1 /\ last.res.err = last.h.err)

C5_Witness ==
    /\ last.op = "send"
    /\ last.inv = 1
    /\ ~last.res.ok
    /\ last.res.err = "HandlerError"

\* C6: a send is handled by the stored handler in the state its earlier
\* invocations left: the handler invoked is the stored one as it is, what the
\* invocation does to the handler is what the registry holds afterwards, and
\* no other step (a send or a registration of another request type, a
\* suspension) changes a stored handler.
C6_HandlerStatePersists ==
    [][ /\ \A c \in Callers :
             /\ Begins(c) =>
                  \E e \in map : e.key = cur'[c].req /\ e.h = cur'[c].h
             /\ Returns(c) =>
                  /\ \E e \in map' : e.key = cur[c].req
                  /\ \A e \in map' : e.key = cur[c].req =>
                         e.h = handle(cur[c].h, cur[c].v).h
        /\ \A e \in map :
             (/\ ~(Registers /\ last'.req = e.key)
              /\ ~(\E c \in Callers : Returns(c) /\ cur[c].req = e.key))
             => e \in map' ]_vars

C6_Witness ==
    /\ last.op = "send"
    /\ last.inv = 1
    /\ last.h.n = 1
    /\ last.res.ok
    /\ Cardinality(map) = 2
    /\ \E e \in map : e.h.id = last.h.id /\ e.h.n = 2

\* C7: no registration displaces a handler registered for the same request
\* type under another response type, and a send of a request type that has a
\* registration is never answered with the mediator's HandlerNotRegistered.
C7_NoKeyCollision ==
    /\ last.op = "register" => last.old \in {"none", last.resp}
    /\ (last.op = "send" /\ last.req \in ever) => last.inv = 1

\* C8: a lookup yields a handler exactly when the entry of the key exists and
\* its stored type is the type asked for; otherwise send returns
\* HandlerNotRegistered and the registry is left as it was.  A handler that
\* is found has the response type of the send.
C8_CheckedRecovery ==
    [][ /\ \A c \in Callers :
             Begins(c) =>
                 /\ \E e \in map :
                       /\ e.key = cur'[c].req
                       /\ e.ty = BoxedHandlerType(cur'[c].req, cur'[c].resp)
                       /\ e.h = cur'[c].h
                 /\ cur'[c].h.resp = cur'[c].resp
                 /\ map' = map
        /\ (last' # last /\ last'.op = "send" /\ last'.inv = 0) =>
                 /\ ~ \E e \in map :
                       /\ e.key = last'.req
                       /\ e.ty = BoxedHandlerType(last'.req, last'.resp)
                 /\ last'.res = Err(HandlerNotRegisteredError)
                 /\ map' = map
        /\ (last'.op = "send" /\ last'.res.ok) => last'.res.ty = last'.resp ]_vars

C8_Witness ==
    /\ last.op = "send"
    /\ last.inv = 0
    /\ \E e \in map : e.key = last.req /\ e.ty # BoxedHandlerType(last.req, last.resp)

\* C9: the registered request types never shrink and change only in a
\* registration; a send, whatever it returns, leaves every entry in place
\* with the handler it had; a type once registered stays registered.
C9_RegistryOnlyGrows ==
    [][ /\ Keys(map) \subseteq Keys(map')
        /\ Keys(map') # Keys(map) => Registers
        /\ ~Registers =>
             { <<e.key, e.ty, e.h.id>> : e \in map' } = { <<e.key, e.ty, e.h.id>> : e \in map }
        /\ ever \subseteq Keys(map)
        /\ ever' \subseteq Keys(map') ]_vars

C9_Witness ==
    /\ last.op = "send"
    /\ last.inv = 1
    /\ ~last.res.ok
    /\ Cardinality(map) = 2
    /\ ever = ReqTypes

\* C10: while a send is in its handler no other call on the mediator begins:
\* at most one send is in progress, the handler it runs stays the stored one,
\* and the only step taken is the suspension or the return of that send; a
\* send is suspended nowhere but in its handler.
C10_ExclusiveCalls ==
    [][ /\ Cardinality(InHandle) <= 1
        /\ Cardinality(InHandle') <= 1
        /\ \A c \in Callers : cur[c].suspended => pc[c] = "handle"
        /\ \A c \in Callers : cur'[c].suspended => pc'[c] = "handle"
        /\ \A c \in InHandle :
             /\ \E e \in map : e.key = cur[c].req /\ e.h = cur[c].h
             /\ ~Registers
             /\ \A d \in Callers \ {c} : pc'[d] = "idle"
             /\ last' # last => Returns(c)
             /\ map' # map => Returns(c) ]_vars

C10_Witness ==
    \E c \in Callers :
        /\ pc[c] = "handle"
        /\ cur[c].suspended
        /\ cur[c].h.n = 1

====
